---- MODULE Spec2Model ----
(***************************************************************************)
(* Random-walk corpus generation of nrl: the node2vec transition tables    *)
(* (nrl/algorithm/node2vec.py), the three walkers (nrl/walker/walkers.py)  *)
(* and the walk orchestrator (nrl/walker/utils.py).                        *)
(*                                                                         *)
(* A graph is an igraph edge list: a set of <<source, target>> tuples.     *)
(* Vertex.neighbors() is called with its default mode ("all"), so          *)
(* adjacency ignores the orientation of an edge, while                     *)
(* es.select(_source=, _target=) reads the tuple as stored.                *)
(* sampling_strategy is keyed by vertex: the walker looks the Vertex up,   *)
(* the table build its name, and the model identifies the two.             *)
(* Real numbers are exact fractions <<numerator, denominator>>.            *)
(***************************************************************************)
EXTENDS Integers, Sequences, FiniteSets

\* ---------------------------------------------------------------- bounds
NumVertices == 3
MaxEdges == 3
MaxPathLength == 3
MaxNumberPaths == 2
MaxWeight == 2

Vertices == 0..(NumVertices - 1)
\* the value of a local that has not been assigned yet
None == NumVertices

\* ------------------------------------------------------------- fractions
Abs(n) == IF n < 0 THEN 0 - n ELSE n

Sign(n) == IF n < 0 THEN 0 - 1 ELSE IF n > 0 THEN 1 ELSE 0

RECURSIVE Gcd(_, _)
Gcd(a, b) == IF b = 0 THEN a ELSE Gcd(b, a % b)

\* a fraction in lowest terms with a positive denominator; a zero
\* denominator stands for numpy's inf / nan
Frac(n, d) ==
    IF d = 0 THEN <<Sign(n), 0>>
    ELSE LET g == Gcd(Abs(n), Abs(d))
         IN  <<Sign(d) * (n \div g), Abs(d) \div g>>

FracAdd(a, b) == Frac(a[1] * b[2] + b[1] * a[2], a[2] * b[2])

FracDiv(a, b) == Frac(a[1] * b[2], a[2] * b[1])

FracLeq(a, b) == a[1] * b[2] <= b[1] * a[2]

FracLt(a, b) == a[1] * b[2] < b[1] * a[2]

RECURSIVE FracSum(_)
FracSum(s) == IF s = <<>> THEN <<0, 1>> ELSE FracAdd(s[1], FracSum(Tail(s)))

\* the outcome of a Python division that raised ZeroDivisionError
Raised == <<>>

\* Python's weight / x on plain numbers
PyDiv(w, x) == IF x[1] = 0 THEN Raised ELSE FracDiv(w, x)

\* ------------------------------------------------------------ the inputs
Pairs == {e \in Vertices \X Vertices : e[1] # e[2]}

Graphs ==
    {E \in SUBSET Pairs :
        /\ Cardinality(E) <= MaxEdges
        /\ \A e \in E : <<e[2], e[1]>> \notin E}

\* values of p and q, valid (> 0) and invalid
PQValues == {<<0 - 1, 1>>, <<0, 1>>, <<1, 2>>, <<2, 1>>}

\* outcomes of random.random(), and the restart probabilities
Draws == {<<0, 1>>, <<1, 2>>}

RestartProbabilities == {<<0, 1>>, <<1, 2>>, <<1, 1>>}

VARIABLES
    edges,              \* graph.es as a set of <<source, target>>
    weight,             \* the 'weight' attribute of every edge
    kind,               \* the walker class in use
    parameters,         \* RandomWalkParameters
    probabilities,      \* vertex attribute 'probabilities': current -> source -> distribution
    first_travel,       \* vertex attribute 'first_travel_key', on the vertices that have it
    unnormalized,       \* the lists _compute_unnormalized_weights returned
    pc,                 \* "new", "ready", "exhausted", "failed"
    error,              \* the exception that ended the run, or "none"
    rep,                \* get_walks: repetitions completed
    idx,                \* get_walks: position in graph.vs
    corpus,             \* get_walks: number of walks yielded so far
    skipped,            \* get_walks: yielded walks that the num_walks rule cut short
    vertex,             \* the walk being consumed: its start vertex
    walk,               \* the walk being consumed: the vertices emitted so far
    tail, double_tail, path_length, walk_length,
    wpc,                \* position of the walk generator
    draw,               \* last value of random.random()
    branch              \* arm of the restart conditional taken by the last step

vars == <<edges, weight, kind, parameters, probabilities, first_travel, unnormalized,
          pc, error, rep, idx, corpus, skipped, vertex, walk, tail, double_tail,
          path_length, walk_length, wpc, draw, branch>>

graphVars == <<edges, kind, parameters>>

tableVars == <<probabilities, first_travel, unnormalized>>

loopVars == <<rep, idx, corpus, skipped>>

walkVars == <<vertex, walk, tail, double_tail, path_length, walk_length, wpc, draw, branch>>

\* ----------------------------------------------------------------- graph
RECURSIVE SortedSeq(_)
SortedSeq(S) ==
    IF S = {} THEN <<>>
    ELSE LET m == CHOOSE x \in S : \A y \in S : x <= y
         IN  <<m>> \o SortedSeq(S \ {m})

Range(s) == {s[i] : i \in DOMAIN s}

\* Vertex.neighbors(), mode "all"
Neighbors(v) ==
    SortedSeq({x \in Vertices : <<v, x>> \in edges \/ <<x, v>> \in edges})

\* graph.neighborhood_size(v): the vertices within one step of v, v included
NeighborhoodSize(v) == 1 + Len(Neighbors(v))

\* graph.es.select(_source=source, _target=target)
SelectSourceTarget(source, target) ==
    {e \in edges : e[1] = source /\ e[2] = target}

\* graph.es.select(_between=([a], [b]))['weight'][0], the weights being w
EdgeWeight(w, a, b) ==
    LET e == CHOOSE e \in edges : e = <<a, b>> \/ e = <<b, a>>
    IN  <<w[e], 1>>

\* ------------------------------------------------- parameter resolution
SamplingStrategy == parameters.sampling_strategy

Has(v, key) == v \in DOMAIN SamplingStrategy /\ key \in DOMAIN SamplingStrategy[v]

GetP(current_node) ==
    IF Has(current_node, "p") THEN SamplingStrategy[current_node]["p"] ELSE parameters.p

GetQ(current_node) ==
    IF Has(current_node, "q") THEN SamplingStrategy[current_node]["q"] ELSE parameters.q

\* --------------------------------------------------- transition tables
ComputeProb(source, target, p, q, w) ==
    IF target = source THEN PyDiv(w, p)
    ELSE IF Cardinality(SelectSourceTarget(source, target)) > 0 THEN w
    ELSE PyDiv(w, q)

ComputeUnnormalizedWeights(w, source, current_node) ==
    LET nb == Neighbors(current_node)
    IN  [i \in 1..Len(nb) |->
            ComputeProb(source, nb[i], GetP(current_node), GetQ(current_node),
                        EdgeWeight(w, current_node, nb[i]))]

FirstTravelWeights(w, current_node) ==
    LET nb == Neighbors(current_node)
    IN  [i \in 1..Len(nb) |-> EdgeWeight(w, current_node, nb[i])]

\* unnormalized_weights / sum_of_weights on numpy arrays
Normalize(ws) ==
    LET total == FracSum(ws)
    IN  [i \in 1..Len(ws) |-> FracDiv(ws[i], total)]

\* the build loop walking the successors of every source only
SourcesOfMutant(current_node) == {s \in Vertices : <<s, current_node>> \in edges}

\* the sources whose loop iteration reaches current_node
SourcesOf(current_node) == {s \in Vertices : current_node \in Range(Neighbors(s))}

\* every list _compute_unnormalized_weights returns during the build
UnnormalizedTable(w) ==
    [v \in Vertices |-> [u \in SourcesOf(v) |-> ComputeUnnormalizedWeights(w, u, v)]]

\* a division by zero raised somewhere in the build loop
BuildRaises(table) ==
    \E v \in DOMAIN table : \E u \in DOMAIN table[v] : Raised \in Range(table[v][u])

\* Node2VecModel.__init__: fix the weights of an unweighted graph, then
\* _precompute_probs
Construct ==
    /\ pc = "new"
    /\ LET w == IF parameters.is_weighted THEN weight ELSE [e \in edges |-> 1]
           table == UnnormalizedTable(w)
       IN  /\ weight' = w
           /\ IF BuildRaises(table)
              THEN /\ pc' = "failed"
                   /\ error' = "ZeroDivisionError"
                   /\ UNCHANGED tableVars
              ELSE /\ pc' = "ready"
                   /\ error' = "none"
                   /\ unnormalized' = table
                   /\ probabilities' =
                        [v \in Vertices |->
                           [u \in DOMAIN table[v] |-> Normalize(table[v][u])]]
                   /\ first_travel' =
                        [v \in {x \in Vertices : DOMAIN table[x] # {}} |->
                           Normalize(FirstTravelWeights(w, v))]
    /\ UNCHANGED <<graphVars, loopVars, walkVars>>

\* ------------------------------------------------------------- sampling
\* random.choice(seq) raises IndexError on an empty sequence
RandomChoiceRaises(seq) == Len(seq) = 0

\* np.random.choice(a, p=p) raises ValueError: a is empty, p has another
\* size than a, p holds a nan or a negative entry, or p does not sum to 1
NpChoiceRaises(a, p) ==
    \/ Len(a) = 0
    \/ Len(p) # Len(a)
    \/ \E i \in DOMAIN p : p[i][2] = 0 \/ p[i][1] < 0
    \/ FracSum(p) # <<1, 1>>

\* the positions np.random.choice(a, p=p) can return
NpChoices(a, p) == {i \in DOMAIN a : p[i][1] > 0}

Raise(exception) ==
    /\ wpc' = "raised"
    /\ error' = exception
    /\ pc' = "failed"

Emit(v) == walk' = Append(walk, v)

\* ------------------------------------------------ StandardRandomWalker
\* get_igraph_walk up to its first yield
StandardStart ==
    /\ pc = "ready" /\ kind = "standard" /\ wpc = "start"
    /\ tail' = vertex
    /\ Emit(vertex)
    /\ path_length' = 1
    /\ wpc' = "loop"
    /\ UNCHANGED <<graphVars, weight, tableVars, pc, error, loopVars,
                   vertex, double_tail, walk_length, draw, branch>>

\* one evaluation of the while condition and, if it holds, one iteration
StandardStep ==
    /\ pc = "ready" /\ kind = "standard" /\ wpc = "loop"
    /\ IF path_length < parameters.max_path_length /\ NeighborhoodSize(tail) # 0
       THEN LET neighbors == Neighbors(tail)
            IN  IF RandomChoiceRaises(neighbors)
                THEN /\ Raise("IndexError")
                     /\ UNCHANGED <<tail, walk, path_length>>
                ELSE /\ \E i \in DOMAIN neighbors :
                            /\ tail' = neighbors[i]
                            /\ Emit(neighbors[i])
                     /\ path_length' = path_length + 1
                     /\ UNCHANGED <<wpc, error, pc>>
       ELSE /\ wpc' = "done"
            /\ UNCHANGED <<tail, walk, path_length, error, pc>>
    /\ UNCHANGED <<graphVars, weight, tableVars, loopVars,
                   vertex, double_tail, walk_length, draw, branch>>

\* ---------------------------------------------- RestartingRandomWalker
RestartingStart ==
    /\ pc = "ready" /\ kind = "restarting" /\ wpc = "start"
    /\ tail' = vertex
    /\ Emit(vertex)
    /\ path_length' = 1
    /\ wpc' = "loop"
    /\ UNCHANGED <<graphVars, weight, tableVars, pc, error, loopVars,
                   vertex, double_tail, walk_length, draw, branch>>

\* the test of the conditional expression that picks the next tail
RestartTaken(restart_probability, r) == FracLeq(restart_probability, r)

RestartingStep ==
    /\ pc = "ready" /\ kind = "restarting" /\ wpc = "loop"
    /\ IF path_length < parameters.max_path_length /\ NeighborhoodSize(tail) # 0
       THEN \E r \in Draws :
              /\ draw' = r
              /\ IF RestartTaken(parameters.restart_probability, r)
                 THEN /\ tail' = vertex
                      /\ Emit(vertex)
                      /\ branch' = "restart"
                      /\ path_length' = path_length + 1
                      /\ UNCHANGED <<wpc, error, pc>>
                 ELSE LET neighbors == Neighbors(tail)
                      IN  IF RandomChoiceRaises(neighbors)
                          THEN /\ Raise("IndexError")
                               /\ branch' = "neighbor"
                               /\ UNCHANGED <<tail, walk, path_length>>
                          ELSE /\ \E i \in DOMAIN neighbors :
                                      /\ tail' = neighbors[i]
                                      /\ Emit(neighbors[i])
                               /\ branch' = "neighbor"
                               /\ path_length' = path_length + 1
                               /\ UNCHANGED <<wpc, error, pc>>
       ELSE /\ wpc' = "done"
            /\ UNCHANGED <<tail, walk, path_length, error, pc, draw, branch>>
    /\ UNCHANGED <<graphVars, weight, tableVars, loopVars,
                   vertex, double_tail, walk_length>>

\* -------------------------------------------------- BiasedRandomWalker
\* _check: the vertex carries a num_walks override <= number_paths
Check(v) ==
    /\ v \in DOMAIN SamplingStrategy
    /\ "num_walks" \in DOMAIN SamplingStrategy[v]
    /\ SamplingStrategy[v]["num_walks"] <= parameters.number_paths

\* the walk length get_igraph_walk computes for a start vertex
WalkLength(v) ==
    IF v \in DOMAIN SamplingStrategy
    THEN IF "walk_length" \in DOMAIN SamplingStrategy[v]
         THEN SamplingStrategy[v]["walk_length"]
         ELSE parameters.max_path_length
    ELSE parameters.max_path_length

\* the guard that opens get_igraph_walk
PathTooShortMutant(max_path_length) == max_path_length < 1

PathTooShort(max_path_length) == max_path_length < 2

\* get_igraph_walk up to its first yield, its raise or its early return
BiasedStart ==
    /\ pc = "ready" /\ kind = "biased" /\ wpc = "start"
    /\ IF PathTooShort(parameters.max_path_length)
       THEN /\ Raise("ValueError")
            /\ UNCHANGED <<walk, double_tail, skipped>>
       ELSE IF Check(vertex)
            THEN /\ wpc' = "done"
                 /\ skipped' = skipped + 1
                 /\ UNCHANGED <<walk, double_tail, error, pc>>
            ELSE /\ Emit(vertex)
                 /\ double_tail' = vertex
                 /\ wpc' = "first"
                 /\ UNCHANGED <<error, pc, skipped>>
    /\ UNCHANGED <<graphVars, weight, tableVars, rep, idx, corpus,
                   vertex, tail, path_length, walk_length, draw, branch>>

\* from the first yield to the second: the walk length and the first travel.
\* vertex['first_travel_key'] raises KeyError when no vertex has the
\* attribute and is None on a vertex that was never given it; a sampled
\* Vertex is never falsy, so the return after the draw is not taken
BiasedFirstTravel ==
    /\ pc = "ready" /\ kind = "biased" /\ wpc = "first"
    /\ walk_length' = WalkLength(vertex)
    /\ IF DOMAIN first_travel = {}
       THEN /\ Raise("KeyError")
            /\ UNCHANGED <<tail, walk, path_length>>
       ELSE IF vertex \notin DOMAIN first_travel
            THEN /\ Raise("ValueError")
                 /\ UNCHANGED <<tail, walk, path_length>>
            ELSE LET neighbors == Neighbors(vertex)
                     distribution == first_travel[vertex]
                 IN  IF NpChoiceRaises(neighbors, distribution)
                     THEN /\ Raise("ValueError")
                          /\ UNCHANGED <<tail, walk, path_length>>
                     ELSE /\ \E i \in NpChoices(neighbors, distribution) :
                                 /\ tail' = neighbors[i]
                                 /\ Emit(neighbors[i])
                          /\ path_length' = 2
                          /\ wpc' = "loop"
                          /\ UNCHANGED <<error, pc>>
    /\ UNCHANGED <<graphVars, weight, tableVars, loopVars,
                   vertex, double_tail, draw, branch>>

\* one evaluation of the while condition and, if it holds, one iteration
BiasedStep ==
    /\ pc = "ready" /\ kind = "biased" /\ wpc = "loop"
    /\ IF path_length < walk_length /\ Len(Neighbors(tail)) # 0
       THEN IF double_tail \notin DOMAIN probabilities[tail]
            THEN /\ Raise("KeyError")
                 /\ UNCHANGED <<tail, double_tail, walk, path_length>>
            ELSE LET neighbors == Neighbors(tail)
                     distribution == probabilities[tail][double_tail]
                 IN  IF NpChoiceRaises(neighbors, distribution)
                     THEN /\ Raise("ValueError")
                          /\ UNCHANGED <<tail, double_tail, walk, path_length>>
                     ELSE /\ \E i \in NpChoices(neighbors, distribution) :
                                 /\ tail' = neighbors[i]
                                 /\ Emit(neighbors[i])
                          /\ double_tail' = tail
                          /\ path_length' = path_length + 1
                          /\ UNCHANGED <<wpc, error, pc>>
       ELSE /\ wpc' = "done"
            /\ UNCHANGED <<tail, double_tail, walk, path_length, error, pc>>
    /\ UNCHANGED <<graphVars, weight, tableVars, loopVars,
                   vertex, walk_length, draw, branch>>

\* a call of get_igraph_walk(graph, v): it creates the generator and runs
\* none of its body
NewWalk(v) ==
    /\ vertex' = v
    /\ walk' = <<>>
    /\ tail' = None /\ double_tail' = None
    /\ path_length' = 0 /\ walk_length' = 0
    /\ wpc' = "start"
    /\ branch' = "none"

\* a caller asks the walker for one walk from a vertex of its choice
GetIgraphWalk ==
    /\ pc = "ready" /\ wpc = "idle"
    /\ \E v \in Vertices : NewWalk(v)
    /\ UNCHANGED <<graphVars, weight, tableVars, pc, error, loopVars, draw>>

\* ---------------------------------------------------------- get_walks
\* the next element of get_walks, pulled once the previous walk has been
\* consumed: a fresh walk generator for the next vertex of graph.vs (the
\* shuffled list is not the one iterated), or the end of the sequence.
\* get_walk is taken to hand back the generator of get_igraph_walk
GetWalks ==
    /\ pc = "ready" /\ wpc \in {"idle", "done"}
    /\ IF rep < parameters.number_paths
       THEN /\ NewWalk(idx)
            /\ corpus' = corpus + 1
            /\ IF idx + 1 < NumVertices
               THEN idx' = idx + 1 /\ rep' = rep
               ELSE idx' = 0 /\ rep' = rep + 1
            /\ UNCHANGED pc
       ELSE /\ pc' = "exhausted"
            /\ UNCHANGED <<rep, idx, corpus, walkVars>>
    /\ UNCHANGED <<graphVars, weight, tableVars, error, skipped, draw>>

\* ------------------------------------------------------- initial states
EmptyTables ==
    /\ probabilities = [v \in {} |-> <<>>]
    /\ first_travel = [v \in {} |-> <<>>]
    /\ unnormalized = [v \in {} |-> <<>>]

NoWalk ==
    /\ rep = 0 /\ idx = 0 /\ corpus = 0 /\ skipped = 0
    /\ vertex = None /\ walk = <<>> /\ tail = None /\ double_tail = None
    /\ path_length = 0 /\ walk_length = 0 /\ wpc = "idle"
    /\ draw = <<0, 1>> /\ branch = "none"

\* per-vertex overrides of p and q: none, or one vertex overriding either
PQStrategies ==
    {[v \in {} |-> <<>>]}
    \cup {[v \in {s} |-> [k \in {"p"} |-> x]] : s \in Vertices, x \in PQValues}
    \cup {[v \in {s} |-> [k \in {"q"} |-> x]] : s \in Vertices, x \in PQValues}

\* a model under construction, with any p, q and edge weights
InitBuild ==
    /\ edges \in Graphs
    /\ weight \in [edges -> 1..MaxWeight]
    /\ Cardinality({e \in edges : weight[e] # 1}) <= 1
    /\ kind = "biased"
    /\ \E p \in PQValues, q \in PQValues, ss \in PQStrategies, w \in BOOLEAN :
          parameters = [number_paths |-> 1, max_path_length |-> 2,
                        restart_probability |-> <<0, 1>>, p |-> p, q |-> q,
                        sampling_strategy |-> ss, is_weighted |-> w]
    /\ pc = "new" /\ error = "none"
    /\ EmptyTables
    /\ NoWalk

NextBuild == Construct

SpecBuild == InitBuild /\ [][NextBuild]_vars

\* overrides of num_walks and walk_length carried by one vertex
WalkOverrides ==
    {[k \in {} |-> 0]}
    \cup {[k \in {"walk_length"} |-> l] : l \in 1..(MaxPathLength + 1)}
    \cup {[k \in {"num_walks"} |-> n] : n \in {MaxNumberPaths, MaxNumberPaths + 1}}
    \cup {[k \in {"num_walks", "walk_length"} |->
              IF k = "num_walks" THEN n ELSE l] :
          n \in {MaxNumberPaths, MaxNumberPaths + 1}, l \in 1..(MaxPathLength + 1)}

WalkStrategies ==
    {[v \in {} |-> <<>>]} \cup {[v \in {0} |-> o] : o \in WalkOverrides}

\* a valid configuration of one of the three walkers over a unit-weight graph
Configured ==
    /\ edges \in Graphs
    /\ weight = [e \in edges |-> 1]
    /\ kind \in {"standard", "restarting", "biased"}
    /\ \E n \in {MaxNumberPaths}, l \in 1..MaxPathLength,
          rp \in RestartProbabilities, ss \in WalkStrategies :
          /\ kind # "restarting" => rp = <<0, 1>>
          /\ kind # "biased" => ss = [v \in {} |-> <<>>]
          /\ parameters = [number_paths |-> n, max_path_length |-> l,
                           restart_probability |-> rp, p |-> <<1, 2>>, q |-> <<2, 1>>,
                           sampling_strategy |-> ss, is_weighted |-> TRUE]
    /\ pc = (IF kind = "biased" THEN "new" ELSE "ready")
    /\ error = "none"
    /\ EmptyTables

\* a configured walker that has produced nothing yet
Init ==
    /\ Configured
    /\ NoWalk

Steps ==
    \/ Construct
    \/ StandardStart
    \/ StandardStep
    \/ RestartingStart
    \/ RestartingStep
    \/ BiasedStart
    \/ BiasedFirstTravel
    \/ BiasedStep

\* the corpus: every walk is pulled from get_walks
Next ==
    \/ Steps
    \/ GetWalks

Spec == Init /\ [][Next]_vars

\* one walk, from any start vertex
NextWalk ==
    \/ Steps
    \/ GetIgraphWalk

SpecWalk == Init /\ [][NextWalk]_vars

\* ================================================================ claims
EffectiveWalkLength == WalkLength(vertex)

Isolated(v) == Len(Neighbors(v)) = 0

Adjacent(a, b) == <<a, b>> \in edges \/ <<b, a>> \in edges

Consumed == wpc \in {"done", "raised"}

\* C1: every walk has between 1 and effective_walk_length vertices, the
\* effective length being the start vertex's walk_length override if it
\* has one and max_path_length otherwise (stated for the walks the
\* num_walks rule does not skip).
C1_WalkLengthBounds ==
    (vertex # None /\ ~Check(vertex)) =>
        /\ Len(walk) <= EffectiveWalkLength
        /\ wpc = "done" => Len(walk) >= 1

\* C2: from a start vertex without neighbors every walker ends normally,
\* having emitted the start vertex and nothing else (stated for
\* max_path_length >= 2 and start vertices the num_walks rule does not skip).
C2_IsolatedStart ==
    (vertex # None /\ Isolated(vertex) /\ ~Check(vertex)
        /\ parameters.max_path_length >= 2) =>
        /\ wpc # "raised"
        /\ Len(walk) <= 1
        /\ wpc = "done" => walk = <<vertex>>

\* C3: a step of the restarting walker goes back to the start vertex
\* exactly when its draw r is below restart_probability, and to a neighbor
\* of the current tail otherwise (stated for start vertices that have
\* neighbors).
C3_RestartWhenDrawBelow ==
    (kind = "restarting" /\ branch # "none" /\ ~Isolated(vertex)) =>
        /\ branch = "restart" <=> FracLt(draw, parameters.restart_probability)
        /\ (branch = "neighbor" /\ wpc # "raised") =>
              Adjacent(walk[Len(walk) - 1], walk[Len(walk)])

\* C4: the table build fails whenever the resolved p or q of a vertex is
\* not positive (stated for the vertices that have a table entry).
C4_BuildRejectsNonPositive ==
    (pc # "new" /\ \E v \in Vertices :
                     /\ ~Isolated(v)
                     /\ GetP(v)[1] <= 0 \/ GetQ(v)[1] <= 0) =>
        pc = "failed"

\* C5: with max_path_length = 1 the biased walker raises ValueError for
\* every start vertex before emitting anything, and the uniform walker
\* emits the start vertex and stops.
C5_PathLengthOne ==
    parameters.max_path_length = 1 =>
        /\ (kind = "biased" /\ wpc \notin {"idle", "start"}) =>
              wpc = "raised" /\ error = "ValueError" /\ walk = <<>>
        /\ (kind = "standard" /\ wpc \notin {"idle", "start"}) =>
              wpc # "raised" /\ error = "none" /\ walk = <<vertex>>

C5_Witness ==
    /\ parameters.max_path_length = 1
    /\ kind = "biased" /\ wpc = "raised"
    /\ ~Isolated(vertex)

\* the weight the table entry (v, previous u) gives neighbor x of v
SecondOrderWeight(v, u, x) ==
    IF x = u THEN PyDiv(EdgeWeight(weight, v, x), GetP(v))
    ELSE IF Adjacent(u, x) THEN EdgeWeight(weight, v, x)
    ELSE PyDiv(EdgeWeight(weight, v, x), GetQ(v))

\* C6: the unnormalized weight of neighbor x in the entry (v, previous u)
\* is w/p when x = u, w when u and x are joined by an edge in either
\* direction, and w/q otherwise (stated for positive p and q).
C6_UnnormalizedWeights ==
    (pc = "ready" /\ \A v \in Vertices : GetP(v)[1] > 0 /\ GetQ(v)[1] > 0) =>
        \A v \in Vertices : \A u \in DOMAIN unnormalized[v] :
            \A i \in DOMAIN Neighbors(v) :
                unnormalized[v][u][i] = SecondOrderWeight(v, u, Neighbors(v)[i])

\* C7: a corpus consumed to its end holds number_paths x vertex_count
\* walks less one per (repetition, vertex) the num_walks rule skipped.
C7_CorpusSize ==
    pc = "exhausted" =>
        corpus = parameters.number_paths * NumVertices - skipped

\* C8: a start vertex whose override sets walk_length = L and that is not
\* skipped gets a walk of exactly L vertices when no dead end is met
\* (stated for max_path_length >= 2).
C8_OverrideLength ==
    (/\ kind = "biased" /\ Consumed
     /\ parameters.max_path_length >= 2
     /\ Has(vertex, "walk_length") /\ ~Check(vertex)
     /\ ~Isolated(vertex)
     /\ \A i \in DOMAIN walk : ~Isolated(walk[i])) =>
        wpc = "done" /\ Len(walk) = SamplingStrategy[vertex]["walk_length"]

\* C9: every lookup of a biased walk succeeds: a start vertex with
\* neighbors has a first-travel distribution, the entry (tail, double_tail)
\* exists, it has one probability per neighbor of tail, and the
\* probabilities follow the order of tail's neighbors (the one at the
\* position of double_tail is the return probability, the largest under
\* p < 1 <= q and unit weights).
C9_LookupsSucceed ==
    (kind = "biased" /\ pc # "new" /\ parameters.max_path_length >= 2) =>
        /\ wpc = "raised" => Isolated(vertex) /\ walk = <<vertex>>
        /\ (wpc = "first" /\ ~Isolated(vertex)) =>
              /\ vertex \in DOMAIN first_travel
              /\ Len(first_travel[vertex]) = Len(Neighbors(vertex))
              /\ ~NpChoiceRaises(Neighbors(vertex), first_travel[vertex])
        /\ wpc = "loop" =>
              /\ double_tail \in DOMAIN probabilities[tail]
              /\ LET distribution == probabilities[tail][double_tail]
                     neighbors == Neighbors(tail)
                 IN  /\ Len(distribution) = Len(neighbors)
                     /\ ~NpChoiceRaises(neighbors, distribution)
                     /\ \A i, j \in DOMAIN neighbors :
                           (neighbors[i] = double_tail /\ neighbors[j] # double_tail) =>
                               FracLt(distribution[j], distribution[i])

\* a walk two steps long whose last step ran against the stored
\* orientation of its edge, about to look up an entry of several neighbors
C9_Witness ==
    /\ kind = "biased" /\ wpc = "loop"
    /\ Len(walk) = 2 /\ path_length < walk_length
    /\ <<tail, double_tail>> \in edges
    /\ Len(Neighbors(tail)) >= 2

\* C10: a walk starts at the start vertex and follows the graph: every
\* later vertex is a neighbor of the one before it (or, for the restarting
\* walker, the start vertex), and a step is only taken from a tail that has
\* a neighbor.
C10_WalkFollowsGraph ==
    /\ Len(walk) >= 1 => walk[1] = vertex
    /\ \A i \in 2..Len(walk) :
          /\ ~Isolated(walk[i - 1])
          /\ \/ Adjacent(walk[i - 1], walk[i])
             \/ kind = "restarting" /\ walk[i] = vertex
====
